---- MODULE Spec2Model ----
(***************************************************************************)
(* Model of sb_arch_opt.pareto_front.CachedParetoFrontMixin: the cached    *)
(* Pareto-front approximation (_calc_pareto_front) and reset_pf_cache.     *)
(*                                                                         *)
(* A front is a numpy array of objective rows; it is modelled as a         *)
(* sequence of rows, each row a tuple of integers.  Python's None is       *)
(* modelled by a record with some = FALSE.                                 *)
(***************************************************************************)
EXTENDS Integers, Sequences, FiniteSets, TLC

VARIABLES
    problem,      \* self: the problem instance (fixes the cache key)
    cache,        \* the pickle file at _pf_cache_path(): absent, or one front
    pc,           \* position of the running _calc_pareto_front call
    pop_size,     \* argument pop_size of the running call
    n_gen,        \* argument n_gen of the running call
    n_repeat,     \* argument n_repeat of the running call
    n_pts_keep,   \* argument n_pts_keep of the running call
    futures,      \* the futures submitted to the ProcessPoolExecutor
    i,            \* loop index of the merge loop (line 85)
    pf,           \* local pf
    pf_unique,    \* value of pf right after np.unique (line 95)
    n_left,       \* iterations left of the down-sampling loop (line 97)
    n_iter,       \* iterations of the down-sampling loop performed so far
    ret           \* outcome of the latest call

vars == <<problem, cache, pc, pop_size, n_gen, n_repeat, n_pts_keep, futures, i,
          pf, pf_unique, n_left, n_iter, ret>>

\* Two processes that call _calc_pareto_front for the same cache key at the
\* same time (used by SpecRace only)
VARIABLES
    r_file,       \* the cache file the processes share
    r_pc,         \* position of each process in its call
    r_pf,         \* local pf of each process
    r_ret,        \* outcome of the call of each process
    r_writer      \* the process whose pickle.dump completed last, 0 if none

race_vars == <<r_file, r_pc, r_pf, r_ret, r_writer>>

\* EGORArchOptInterface (used by SpecEgor only)
VARIABLES
    results_folder,  \* the population load_previous_results finds, or None
    n_init,          \* self.n_init
    e_x,             \* self._x
    e_x_failed,      \* self._x_failed
    e_y,             \* self._y
    e_pc,            \* position in minimize
    n_infill,        \* argument of the running minimize call
    n_infills,       \* iterations the loop of _run_infills has left
    opt_res,         \* local opt_res of minimize
    saved,           \* _save_results ran in the running or last minimize call
    e_ret,           \* outcome of the last minimize call
    n_calls,         \* minimize calls made
    tried            \* every design point loaded or evaluated so far

egor_vars == <<results_folder, n_init, e_x, e_x_failed, e_y, e_pc, n_infill,
               n_infills, opt_res, saved, e_ret, n_calls, tried>>

\* the variables of the other state machines of this module
other_vars == <<race_vars, egor_vars>>

Procs == {1, 2}

\* no concurrent call is made
RaceIdle ==
    /\ r_file = [state |-> "absent", val |-> <<>>]
    /\ r_pc = [p \in Procs |-> "off"]
    /\ r_pf = [p \in Procs |-> <<>>]
    /\ r_ret = [p \in Procs |-> [kind |-> "none", F |-> <<>>]]
    /\ r_writer = 0

-----------------------------------------------------------------------------
(* Bounds of the model *)

\* n_repeat ranges over 1..MaxRepeat
MaxRepeat == 2
\* a finite n_pts_keep ranges over 1..MaxKeep
MaxKeep == 3
\* largest number of rows in the front of one NSGA2 run
MaxRunPts == 2

PopSizes == {6}
NGens == {1, 2}

-----------------------------------------------------------------------------
(* Python's None *)

NoneSeq == [some |-> FALSE, val |-> <<>>]
NoneInt == [some |-> FALSE, val |-> 0]
Some(v) == [some |-> TRUE, val |-> v]

KeepArgs == {NoneInt} \cup {Some(k) : k \in 1..MaxKeep}

-----------------------------------------------------------------------------
(* The problem instances *)

\* Two test problems: a fully discrete one whose objectives ignore part of
\* the design vector (several design points share an objective row), and a
\* mixed one with a continuous variable.
Problems ==
    { [name |-> "discrete",
       vars |-> << [type |-> "Integer", xl |-> 0, xu |-> 3],
                   [type |-> "Integer", xl |-> 0, xu |-> 2] >>],
      [name |-> "mixed",
       vars |-> << [type |-> "Integer", xl |-> 0, xu |-> 3],
                   [type |-> "Real", xl |-> 0, xu |-> 1] >>] }

\* Values a design variable takes in the model: all of them for a discrete
\* variable, the two bounds for a continuous one.
VarValues(v) == IF v.type = "Real" THEN {v.xl, v.xu} ELSE v.xl..v.xu

\* All design vectors of the problem.
DesignPoints(p) ==
    LET U == UNION {VarValues(p.vars[d]) : d \in 1..Len(p.vars)}
    IN  {x \in [1..Len(p.vars) -> U] : \A d \in 1..Len(p.vars) : x[d] \in VarValues(p.vars[d])}

\* The objective values of one design vector (two objectives, both minimised).
\* Only the design vectors with the first variable at its upper bound depend
\* on the second variable: there it adds a penalty to both objectives, which
\* gives a dominated row; elsewhere several design vectors share one row.
Evaluate(p, x) ==
    LET top == p.vars[1].xu
        c == IF p.name = "discrete" THEN (x[2] \div 2) * (x[1] \div top)
             ELSE x[2] * (x[1] \div top)
    IN  IF p.name = "discrete"
        THEN <<x[1] * x[1] + c, (top - x[1]) + c>>
        ELSE <<x[1] + c, (top - x[1]) + c>>

-----------------------------------------------------------------------------
(* Sequences of rows *)

RECURSIVE SortInts(_)
SortInts(S) ==
    IF S = {} THEN <<>>
    ELSE LET m == CHOOSE a \in S : \A b \in S : a <= b
         IN  <<m>> \o SortInts(S \ {m})

\* F[idx, :]
SelectRows(F, idx) == [j \in 1..Len(idx) |-> F[idx[j]]]

Rows(F) == {F[j] : j \in 1..Len(F)}

\* lexicographic order of two rows of equal length
LexLeq(a, b) ==
    \/ a = b
    \/ \E k \in 1..Len(a) : a[k] < b[k] /\ \A l \in 1..(k - 1) : a[l] = b[l]

RECURSIVE SortRows(_)
SortRows(S) ==
    IF S = {} THEN <<>>
    ELSE LET m == CHOOSE a \in S : \A b \in S : LexLeq(a, b)
         IN  <<m>> \o SortRows(S \ {m})

\* np.unique(pf, axis=0): the distinct rows, sorted lexicographically
Unique(F) == SortRows(Rows(F))

-----------------------------------------------------------------------------
(* Non-dominated filtering *)

\* a dominates b: no worse in every objective, better in at least one
Dominates(a, b) ==
    /\ \A k \in 1..Len(a) : a[k] <= b[k]
    /\ \E k \in 1..Len(a) : a[k] < b[k]

\* NonDominatedSorting().do(F, only_non_dominated_front=True): the indices of
\* the rows no other row dominates, ascending
NonDominatedIdx(F) ==
    SortInts({j \in 1..Len(F) : ~\E l \in 1..Len(F) : Dominates(F[l], F[j])})

\* variant: the filter keeps every row
NonDominated_KeepAll(F) == F

\* F[i_non_dom, :]
NonDominated(F) == SelectRows(F, NonDominatedIdx(F))

-----------------------------------------------------------------------------
(* Crowding distance (pymoo calc_crowding_distance) *)

\* pymoo gives every later copy of a row the distance zero
IsDuplicate(F, j) == \E l \in 1..(j - 1) : F[l] = F[j]

UniqueIdx(F) == {j \in 1..Len(F) : ~IsDuplicate(F, j)}

\* position of row j in the stable sort of objective k over the unique rows
Rank(F, k, j) ==
    1 + Cardinality({l \in UniqueIdx(F) :
                        F[l][k] < F[j][k] \/ (F[l][k] = F[j][k] /\ l < j)})

RowAtRank(F, k, r) == CHOOSE l \in UniqueIdx(F) : Rank(F, k, l) = r

MaxOf(S) == CHOOSE a \in S : \A b \in S : b <= a
MinOf(S) == CHOOSE a \in S : \A b \in S : a <= b

\* norm of objective k: max - min over the unique rows
Norm(F, k) ==
    LET col == {F[l][k] : l \in UniqueIdx(F)} IN MaxOf(col) - MinOf(col)

NObj(F) == Len(F[1])

\* an objective whose norm is 0 contributes 0 (NaN replaced by 0.0)
IsBoundary(F, j) ==
    \E k \in 1..NObj(F) :
        /\ Norm(F, k) # 0
        /\ Rank(F, k, j) \in {1, Cardinality(UniqueIdx(F))}

\* dist_to_last + dist_to_next of an interior row in objective k
Gap(F, k, j) ==
    LET r == Rank(F, k, j)
    IN  F[RowAtRank(F, k, r + 1)][k] - F[RowAtRank(F, k, r - 1)][k]

RECURSIVE ProdNorms(_, _, _)
\* product of the non-zero norms of the objectives 1..k other than skip
ProdNorms(F, k, skip) ==
    IF k = 0 THEN 1
    ELSE (IF k = skip \/ Norm(F, k) = 0 THEN 1 ELSE Norm(F, k)) * ProdNorms(F, k - 1, skip)

RECURSIVE ScaledSum(_, _, _)
\* sum over the objectives 1..k of Gap/Norm, times the product of all
\* non-zero norms: the crowding distance up to a factor common to all rows
ScaledSum(F, k, j) ==
    IF k = 0 THEN 0
    ELSE (IF Norm(F, k) = 0 THEN 0 ELSE Gap(F, k, j) * ProdNorms(F, NObj(F), k))
         + ScaledSum(F, k - 1, j)

\* calc_crowding_distance(F): per row, infinite or a finite scaled value
Crowding(F) ==
    [j \in 1..Len(F) |->
        IF Len(F) <= 2 THEN [inf |-> TRUE, num |-> 0]
        ELSE IF IsDuplicate(F, j) THEN [inf |-> FALSE, num |-> 0]
        ELSE IF IsBoundary(F, j) THEN [inf |-> TRUE, num |-> 0]
        ELSE [inf |-> FALSE, num |-> ScaledSum(F, NObj(F), j)]]

CDLeq(a, b) == b.inf \/ (~a.inf /\ a.num <= b.num)
CDLess(a, b) == ~CDLeq(b, a)

\* np.argsort(cd): every index order that is ascending in cd (the default
\* sort is not stable, so rows of equal distance come in any order)
ArgSorts(cd) ==
    LET n == Len(cd)
    IN  {p \in [1..n -> 1..n] :
            /\ \A a, b \in 1..n : a # b => p[a] # p[b]
            /\ \A a \in 1..(n - 1) : CDLeq(cd[p[a]], cd[p[a + 1]])}

\* variant: the second index of the order is dropped, the first kept
Tail1_DropSecond(p) == [j \in 1..(Len(p) - 1) |-> IF j = 1 THEN p[1] ELSE p[j + 1]]

\* argsort[1:]
Tail1(p) == [j \in 1..(Len(p) - 1) |-> p[j + 1]]

-----------------------------------------------------------------------------
(* The steps of the computation *)

\* lines 59-66: the size of the design space, None with a continuous variable
RECURSIVE SpaceSize(_, _)
SpaceSize(p, d) ==
    IF d > Len(p.vars) THEN 1
    ELSE IF p.vars[d].type = "Real" THEN 0
    ELSE (p.vars[d].xu - p.vars[d].xl + 1) * SpaceSize(p, d + 1)

\* the position of the first continuous variable, 0 if there is none
FirstReal(p) ==
    IF \E d \in 1..Len(p.vars) : p.vars[d].type = "Real"
    THEN MinOf({d \in 1..Len(p.vars) : p.vars[d].type = "Real"})
    ELSE 0

\* variant: a continuous variable is skipped instead of ending the count
DesignSpaceSize_SkipReal(p) ==
    LET RECURSIVE Prod(_)
        Prod(d) == IF d > Len(p.vars) THEN 1
                   ELSE (IF p.vars[d].type = "Real" THEN 1
                         ELSE p.vars[d].xu - p.vars[d].xl + 1) * Prod(d + 1)
    IN  Some(Prod(1))

DesignSpaceSize(p) == IF FirstReal(p) # 0 THEN NoneInt ELSE Some(SpaceSize(p, 1))

\* variant: the budget comparison is reversed
UseEnumeration_Reversed(n, ps, ng, nrep) == n.some /\ n.val > ps * ng * nrep

\* line 69
UseEnumeration(n, ps, ng, nrep) == n.some /\ n.val < ps * ng * nrep

\* lines 70-73: RepairedExhaustiveSampling().do(self, n), Evaluator().eval and
\* pop.get('F'): one objective row per design vector
ExhaustiveF(p) ==
    LET X == DesignPoints(p)
        RECURSIVE Enum(_)
        Enum(S) == IF S = {} THEN <<>>
                   ELSE LET x == CHOOSE y \in S : TRUE
                        IN  <<Evaluate(p, x)>> \o Enum(S \ {x})
    IN  Enum(X)

\* lines 73-75
EnumerationFront(p) == NonDominated(ExhaustiveF(p))

\* _run_minimize (lines 108-110): res.F of one NSGA2 run is the set of
\* optimal points of its final population, a mutually non-dominated choice of
\* objective rows of evaluated design vectors
RunFronts(p) ==
    LET image == {Evaluate(p, x) : x \in DesignPoints(p)}
    IN  {SortRows(S) : S \in {T \in SUBSET image :
                                /\ T # {}
                                /\ Cardinality(T) <= MaxRunPts
                                /\ \A a, b \in T : ~Dominates(a, b)}}

Running == [state |-> "running", F |-> <<>>]
Failed == [state |-> "failed", F |-> <<>>]
Finished(F) == [state |-> "finished", F |-> F]

\* variant: the concatenation is not filtered
MergeRun_NoFilter(cur, F) ==
    IF ~cur.some THEN Some(F)
    ELSE Some(cur.val \o F)

\* variant: only the rows of the new run are filtered against the running
\* front, whose own rows are all kept
MergeRun_KeepCurrent(cur, F) ==
    IF ~cur.some THEN Some(F)
    ELSE Some(cur.val \o SelectRows(F, SortInts({j \in 1..Len(F) :
                         ~\E l \in 1..Len(cur.val) : Dominates(cur.val[l], F[j])})))

\* lines 87-92: the running front after the next run's front is merged
MergeRun(cur, F) ==
    IF ~cur.some THEN Some(F)
    ELSE Some(NonDominated(cur.val \o F))

\* variant: the size comparison is reversed
NeedsReduction_Reversed(keep, F) == keep.some /\ Len(F) < keep.val

\* variant: n_pts_keep = None is not told apart from a limit
NeedsReduction_IgnoreNone(keep, F) == Len(F) > keep.val

\* line 96
NeedsReduction(keep, F) == keep.some /\ Len(F) > keep.val

\* lines 98-100: the fronts one removal step may leave
RemoveOne(F) == {SelectRows(F, Tail1(p)) : p \in ArgSorts(Crowding(F))}

\* the arguments of a call
Args(ps, ng, nrep, keep) ==
    [pop_size |-> ps, n_gen |-> ng, n_repeat |-> nrep, n_pts_keep |-> keep]

NoArgs == Args(0, 0, 0, NoneInt)

\* Outcome of a call: kind "front" with the returned array F, or kind
\* "error" with the run whose exception left the call.  The other fields
\* record the call: its arguments, whether it computed (cache miss), the
\* array after np.unique and the number of down-sampling iterations.
NoRet == [kind |-> "none", F |-> <<>>, run |-> 0, args |-> NoArgs,
          computed |-> FALSE, pf_unique |-> <<>>, n_iter |-> 0]

ErrorRet(j, a) == [NoRet EXCEPT !.kind = "error", !.run = j, !.args = a]

\* variant: the loop runs one iteration short
LoopCount_OneShort(keep, F) == Len(F) - keep.val - 1

\* line 97: the number of iterations of the down-sampling loop
LoopCount(keep, F) == Len(F) - keep.val

Unbound == [bound |-> FALSE, val |-> <<>>]

\* no interface object exists
EgorIdle ==
    /\ results_folder = NoneSeq
    /\ n_init = 0
    /\ e_x = NoneSeq
    /\ e_x_failed = NoneSeq
    /\ e_y = NoneSeq
    /\ e_pc = "off"
    /\ n_infill = 0
    /\ n_infills = 0
    /\ opt_res = Unbound
    /\ saved = FALSE
    /\ e_ret = [kind |-> "none", res |-> Unbound]
    /\ n_calls = 0
    /\ tried = {}

-----------------------------------------------------------------------------
(* State machine *)

PfIdle ==
    /\ problem \in Problems
    /\ cache = NoneSeq
    /\ pc = "idle"
    /\ pop_size = 0
    /\ n_gen = 0
    /\ n_repeat = 0
    /\ n_pts_keep = NoneInt
    /\ futures = <<>>
    /\ i = 0
    /\ pf = NoneSeq
    /\ pf_unique = <<>>
    /\ n_left = 0
    /\ n_iter = 0
    /\ ret = NoRet

Init == PfIdle /\ RaceIdle /\ EgorIdle

\* the locals of a call are gone when it returns
ClearLocals ==
    /\ pop_size' = 0
    /\ n_gen' = 0
    /\ n_repeat' = 0
    /\ n_pts_keep' = NoneInt
    /\ futures' = <<>>
    /\ i' = 0
    /\ pf' = NoneSeq
    /\ pf_unique' = <<>>
    /\ n_left' = 0
    /\ n_iter' = 0

\* reset_pf_cache (lines 47-50)
ResetPfCache ==
    /\ pc = "idle"
    /\ cache' = NoneSeq
    /\ UNCHANGED <<other_vars, problem, pc, pop_size, n_gen, n_repeat, n_pts_keep, futures, i, pf, pf_unique,
                   n_left, n_iter, ret>>

\* variant: the cached array is cut to the n_pts_keep of the call
CacheHit_Truncated(ps, ng, nrep, keep) ==
    /\ pc = "idle"
    /\ cache.some
    /\ ret' = [NoRet EXCEPT !.kind = "front",
                            !.F = IF keep.some /\ Len(cache.val) > keep.val
                                  THEN SubSeq(cache.val, 1, keep.val)
                                  ELSE cache.val,
                            !.args = Args(ps, ng, nrep, keep)]
    /\ UNCHANGED <<other_vars, problem, cache, pc, pop_size, n_gen, n_repeat, n_pts_keep, futures,
                   i, pf, pf_unique, n_left, n_iter>>

\* lines 54-57: the cache file exists, it is loaded and returned
CacheHit(ps, ng, nrep, keep) ==
    /\ pc = "idle"
    /\ cache.some
    /\ ret' = [NoRet EXCEPT !.kind = "front", !.F = cache.val,
                            !.args = Args(ps, ng, nrep, keep)]
    /\ UNCHANGED <<other_vars, problem, cache, pc, pop_size, n_gen, n_repeat, n_pts_keep, futures, i, pf,
                   pf_unique, n_left, n_iter>>

\* lines 54-75: cache miss, the design space is small: evaluate all points
StartEnumeration(ps, ng, nrep, keep) ==
    /\ pc = "idle"
    /\ ~cache.some
    /\ UseEnumeration(DesignSpaceSize(problem), ps, ng, nrep)
    /\ pf' = Some(EnumerationFront(problem))
    /\ pop_size' = ps
    /\ n_gen' = ng
    /\ n_repeat' = nrep
    /\ n_pts_keep' = keep
    /\ pc' = "unique"
    /\ ret' = NoRet
    /\ UNCHANGED <<other_vars, problem, cache, futures, i, pf_unique, n_left, n_iter>>

\* lines 54-69 and 79-82: cache miss, n_repeat runs are submitted
StartSearch(ps, ng, nrep, keep) ==
    /\ pc = "idle"
    /\ ~cache.some
    /\ ~UseEnumeration(DesignSpaceSize(problem), ps, ng, nrep)
    /\ futures' = [j \in 1..nrep |-> Running]
    /\ pop_size' = ps
    /\ n_gen' = ng
    /\ n_repeat' = nrep
    /\ n_pts_keep' = keep
    /\ pc' = "wait"
    /\ ret' = NoRet
    /\ UNCHANGED <<other_vars, problem, cache, i, pf, pf_unique, n_left, n_iter>>

\* a worker finishes run j with a front
RunFinishes(j) ==
    /\ pc = "wait"
    /\ j \in 1..Len(futures)
    /\ futures[j].state = "running"
    /\ \E F \in RunFronts(problem) : futures' = [futures EXCEPT ![j] = Finished(F)]
    /\ UNCHANGED <<other_vars, problem, cache, pc, pop_size, n_gen, n_repeat, n_pts_keep, i, pf, pf_unique,
                   n_left, n_iter, ret>>

\* a worker's run j raises
RunFails(j) ==
    /\ pc = "wait"
    /\ j \in 1..Len(futures)
    /\ futures[j].state = "running"
    /\ futures' = [futures EXCEPT ![j] = Failed]
    /\ UNCHANGED <<other_vars, problem, cache, pc, pop_size, n_gen, n_repeat, n_pts_keep, i, pf, pf_unique,
                   n_left, n_iter, ret>>

\* variant: the wait returns as soon as one future has completed
WaitReturns_FirstCompleted ==
    /\ pc = "wait"
    /\ \E j \in 1..Len(futures) : futures[j].state # "running"
    /\ pc' = "merge"
    /\ i' = 0
    /\ pf' = NoneSeq
    /\ UNCHANGED <<other_vars, problem, cache, pop_size, n_gen, n_repeat, n_pts_keep, futures,
                   pf_unique, n_left, n_iter, ret>>

\* line 82: concurrent.futures.wait returns once no future is running
WaitReturns ==
    /\ pc = "wait"
    /\ \A j \in 1..Len(futures) : futures[j].state # "running"
    /\ pc' = "merge"
    /\ i' = 0
    /\ pf' = NoneSeq
    /\ UNCHANGED <<other_vars, problem, cache, pop_size, n_gen, n_repeat, n_pts_keep, futures, pf_unique,
                   n_left, n_iter, ret>>

\* lines 85-92, one iteration: futures[i].result() returns and is merged
MergeStep ==
    /\ pc = "merge"
    /\ i < n_repeat
    /\ futures[i + 1].state = "finished"
    /\ pf' = MergeRun(pf, futures[i + 1].F)
    /\ i' = i + 1
    /\ pc' = IF i + 1 = n_repeat THEN "unique" ELSE "merge"
    /\ UNCHANGED <<other_vars, problem, cache, pop_size, n_gen, n_repeat, n_pts_keep, futures, pf_unique,
                   n_left, n_iter, ret>>

\* variant: a failed run is skipped and the other runs are merged
MergeRaises_Skip ==
    /\ pc = "merge"
    /\ i < n_repeat
    /\ futures[i + 1].state = "failed"
    /\ i' = i + 1
    /\ pc' = IF i + 1 = n_repeat THEN "unique" ELSE "merge"
    /\ UNCHANGED <<other_vars, problem, cache, pop_size, n_gen, n_repeat, n_pts_keep, futures,
                   pf, pf_unique, n_left, n_iter, ret>>

\* line 86: futures[i].result() re-raises the run's exception, which leaves
\* _calc_pareto_front
MergeRaises ==
    /\ pc = "merge"
    /\ i < n_repeat
    /\ futures[i + 1].state = "failed"
    /\ ret' = ErrorRet(i + 1, Args(pop_size, n_gen, n_repeat, n_pts_keep))
    /\ pc' = "idle"
    /\ ClearLocals
    /\ UNCHANGED <<other_vars, problem, cache>>

\* lines 95-97: deduplicate, then decide whether to down-sample (a loop over
\* an empty range does nothing)
UniqueStep ==
    /\ pc = "unique"
    /\ LET u == Unique(pf.val)
       IN  /\ pf' = Some(u)
           /\ pf_unique' = u
           /\ IF NeedsReduction(n_pts_keep, u) /\ LoopCount(n_pts_keep, u) > 0
              THEN /\ n_left' = LoopCount(n_pts_keep, u)
                   /\ pc' = "reduce"
              ELSE /\ n_left' = 0
                   /\ pc' = "store"
    /\ n_iter' = 0
    /\ UNCHANGED <<other_vars, problem, cache, pop_size, n_gen, n_repeat, n_pts_keep, futures, i, ret>>

\* lines 97-100, one iteration of the down-sampling loop
RemoveStep ==
    /\ pc = "reduce"
    /\ n_left > 0
    /\ \E F \in RemoveOne(pf.val) : pf' = Some(F)
    /\ n_left' = n_left - 1
    /\ n_iter' = n_iter + 1
    /\ pc' = IF n_left = 1 THEN "store" ELSE "reduce"
    /\ UNCHANGED <<other_vars, problem, cache, pop_size, n_gen, n_repeat, n_pts_keep, futures, i, pf_unique, ret>>

\* variant: the front is returned but no cache file is written
StoreAndReturn_NoWrite ==
    /\ pc = "store"
    /\ ret' = [NoRet EXCEPT !.kind = "front", !.F = pf.val,
                            !.args = Args(pop_size, n_gen, n_repeat, n_pts_keep),
                            !.computed = TRUE, !.pf_unique = pf_unique,
                            !.n_iter = n_iter]
    /\ pc' = "idle"
    /\ ClearLocals
    /\ UNCHANGED <<other_vars, problem, cache>>

\* lines 102-106: write the cache file and return
StoreAndReturn ==
    /\ pc = "store"
    /\ cache' = Some(pf.val)
    /\ ret' = [NoRet EXCEPT !.kind = "front", !.F = pf.val,
                            !.args = Args(pop_size, n_gen, n_repeat, n_pts_keep),
                            !.computed = TRUE, !.pf_unique = pf_unique,
                            !.n_iter = n_iter]
    /\ pc' = "idle"
    /\ ClearLocals
    /\ UNCHANGED <<other_vars, problem>>

\* _calc_pareto_front is called (lines 52-69)
Call ==
    \E ps \in PopSizes, ng \in NGens, nrep \in 1..MaxRepeat, keep \in KeepArgs :
        \/ CacheHit(ps, ng, nrep, keep)
        \/ StartEnumeration(ps, ng, nrep, keep)
        \/ StartSearch(ps, ng, nrep, keep)

Worker == \E j \in 1..MaxRepeat : RunFinishes(j) \/ RunFails(j)

Next ==
    \/ ResetPfCache
    \/ Call
    \/ Worker
    \/ WaitReturns
    \/ MergeStep
    \/ MergeRaises
    \/ UniqueStep
    \/ RemoveStep
    \/ StoreAndReturn

Spec == Init /\ [][Next]_vars

-----------------------------------------------------------------------------
(* Properties *)

Returned == ret.kind = "front"
Computed == ret.kind = "front" /\ ret.computed
Computing == pc \in {"wait", "merge", "unique", "reduce", "store"}
NoDuplicates(F) == Cardinality(Rows(F)) = Len(F)

\* C1: while a cache entry exists and is not reset, a call performs no
\* computation: it returns exactly the stored array, whatever its arguments,
\* and leaves the entry unchanged; and the entry a computing call writes is
\* the array that call returns.
C1_CachedCallsReturnStoredFront ==
    [][ /\ (cache.some /\ cache'.some) =>
               /\ cache' = cache
               /\ pc' = "idle"
               /\ ret'.kind = "front"
               /\ ret'.F = cache.val
               /\ (ret' # ret => ~ret'.computed)
        /\ (~cache.some /\ cache'.some) =>
               /\ ret'.kind = "front"
               /\ ret'.computed
               /\ ret'.F = cache'.val ]_vars

\* a call with a limit below the size of the stored array got that array
C1_Witness ==
    /\ Returned
    /\ ~ret.computed
    /\ cache.some
    /\ ret.F = cache.val
    /\ ret.args.n_pts_keep.some
    /\ Len(ret.F) > ret.args.n_pts_keep.val

\* C2: no row of a returned front is dominated by another row of it.
C2_ReturnedFrontNonDominated ==
    Returned => \A a, b \in Rows(ret.F) : ~Dominates(a, b)

\* a computed front of several rows was returned
C2_Witness == Computed /\ Len(ret.F) >= 3

\* C3 as stated: every call with a finite n_pts_keep returns at most
\* n_pts_keep rows.
C3_Original_EveryCallBounded ==
    (Returned /\ ret.args.n_pts_keep.some) => Len(ret.F) <= ret.args.n_pts_keep.val

\* C3 amended: every call that computes (cache miss) with a finite n_pts_keep
\* returns at most n_pts_keep rows.
C3_ComputedFrontBounded ==
    (Computed /\ ret.args.n_pts_keep.some) => Len(ret.F) <= ret.args.n_pts_keep.val

\* a computation whose deduplicated set was larger than the limit returned
C3_Witness ==
    /\ Computed
    /\ ret.args.n_pts_keep.some
    /\ Len(ret.pf_unique) > ret.args.n_pts_keep.val
    /\ Len(ret.F) = ret.args.n_pts_keep.val

\* the non-dominated subset of a set of objective rows
ParetoSet(S) == {a \in S : ~\E b \in S : Dominates(b, a)}

\* the objective rows of an exhaustive evaluation of the design space
ExhaustiveObjectives(p) == {Evaluate(p, x) : x \in DesignPoints(p)}

\* the latest call was made on a fully discrete problem whose design space
\* is smaller than pop_size*n_gen*n_repeat
SmallDiscreteSpace ==
    /\ \A d \in 1..Len(problem.vars) : problem.vars[d].type # "Real"
    /\ Cardinality(DesignPoints(problem))
           < ret.args.pop_size * ret.args.n_gen * ret.args.n_repeat

\* C4 as stated: on a small fully discrete design space the returned front
\* equals the non-dominated subset of the exhaustive evaluation.
C4_Original_FrontIsExactParetoSet ==
    (Returned /\ SmallDiscreteSpace) =>
        Rows(ret.F) = ParetoSet(ExhaustiveObjectives(problem))

\* C4 amended: on a cache miss on a small fully discrete design space the
\* returned rows are distinct rows of the non-dominated subset of the
\* exhaustive evaluation: all of them when n_pts_keep is None or the subset
\* has at most n_pts_keep rows, and exactly n_pts_keep of them otherwise.
C4_ComputedFrontWithinParetoSet ==
    (Computed /\ SmallDiscreteSpace) =>
        LET PS == ParetoSet(ExhaustiveObjectives(problem))
            keep == ret.args.n_pts_keep
        IN  /\ Rows(ret.F) \subseteq PS
            /\ NoDuplicates(ret.F)
            /\ (~keep.some \/ Cardinality(PS) <= keep.val) => Rows(ret.F) = PS
            /\ (keep.some /\ Cardinality(PS) > keep.val) => Len(ret.F) = keep.val

\* the enumeration path returned the whole non-dominated subset
C4_Witness ==
    /\ Computed
    /\ SmallDiscreteSpace
    /\ Len(ret.F) >= 4
    /\ Rows(ret.F) = ParetoSet(ExhaustiveObjectives(problem))

\* C5: reset_pf_cache leaves no cache entry; with no entry, the next call
\* computes instead of returning a stored front, the entry stays absent
\* while it computes, and when it returns it has written the front it
\* returns as the new entry.
C5_ResetForcesRecomputation ==
    [][ /\ ResetPfCache => ~cache'.some
        /\ (pc = "idle" /\ ~cache.some) =>
               /\ pc' \in {"unique", "wait"}
               /\ ret'.kind = "none"
               /\ ~cache'.some
        /\ Computing => ~cache.some
        /\ (Computing /\ ret'.kind = "front") =>
               /\ ret'.computed
               /\ cache' = Some(ret'.F) ]_vars

\* a front was returned and stored, and the entry has been reset since
C5_Witness == pc = "idle" /\ Returned /\ ~cache.some

\* C6: when a run of the search path has failed, the call ends with the
\* error of a failed run, returns no front and writes no cache entry.
C6_FailedRunFailsCall ==
    /\ [](ret.kind = "error" => ~cache.some)
    /\ [][ (pc = "merge" /\ \E j \in 1..n_repeat : futures[j].state = "failed") =>
               /\ pc' \in {"merge", "idle"}
               /\ ~cache'.some
               /\ ret'.kind # "front"
               /\ pc' = "idle" =>
                      /\ ret'.kind = "error"
                      /\ futures[ret'.run].state = "failed" ]_vars

\* the first run succeeded, the second failed, and the call failed
C6_Witness == pc = "idle" /\ ret.kind = "error" /\ ret.run = 2 /\ ~cache.some

\* C7: a computation with n_pts_keep = None, or whose deduplicated set has
\* at most n_pts_keep rows, removes nothing: it returns the deduplicated set.
C7_NoRemovalWithinLimit ==
    (Computed /\ (~ret.args.n_pts_keep.some
                    \/ Len(ret.pf_unique) <= ret.args.n_pts_keep.val)) =>
        /\ ret.F = ret.pf_unique
        /\ ret.n_iter = 0

\* boundary: the deduplicated set has exactly n_pts_keep rows
C7_Witness ==
    /\ Computed
    /\ ret.args.n_pts_keep.some
    /\ Len(ret.pf_unique) = ret.args.n_pts_keep.val
    /\ Len(ret.F) >= 3

\* C8: a computation whose deduplicated set has m > n_pts_keep rows performs
\* exactly m - n_pts_keep removal iterations, each removing exactly one row;
\* the loop counts down to its end, and exactly n_pts_keep rows are left,
\* all of them rows of the deduplicated set.
C8_ExactRemovalCount ==
    /\ []((Computed /\ ret.args.n_pts_keep.some
                    /\ Len(ret.pf_unique) > ret.args.n_pts_keep.val) =>
              /\ ret.n_iter = Len(ret.pf_unique) - ret.args.n_pts_keep.val
              /\ Len(ret.F) = ret.args.n_pts_keep.val
              /\ NoDuplicates(ret.F)
              /\ Rows(ret.F) \subseteq Rows(ret.pf_unique))
    /\ [](pc = "reduce" =>
              /\ n_left >= 1
              /\ n_left = Len(pf.val) - n_pts_keep.val
              /\ n_iter + n_left = Len(pf_unique) - n_pts_keep.val)
    /\ [][ pc = "reduce" =>
              /\ Len(pf'.val) = Len(pf.val) - 1
              /\ Rows(pf'.val) \subseteq Rows(pf.val)
              /\ n_left' = n_left - 1
              /\ n_iter' = n_iter + 1
              /\ pc' = IF n_left' = 0 THEN "store" ELSE "reduce" ]_vars

\* four unique rows were cut to one in three iterations
C8_Witness ==
    /\ Computed
    /\ Len(ret.pf_unique) = 4
    /\ ret.args.n_pts_keep = Some(1)
    /\ ret.n_iter = 3
    /\ Len(ret.F) = 1

\* the indices of the rows of F that a removal step leading to G removed
RemovedIdx(F, G) == {j \in 1..Len(F) : F[j] \notin Rows(G)}

\* C10 as stated: the row with the lowest crowding distance is never the one
\* removed (read at its weakest: when one row has strictly the lowest
\* distance of the current set, that row is kept).
C10_Original_LowestIsKept ==
    [][ pc = "reduce" =>
            LET F == pf.val
                cd == Crowding(F)
            IN  \A j \in RemovedIdx(F, pf'.val) :
                    ~(\A l \in 1..Len(F) : l # j => CDLess(cd[j], cd[l])) ]_vars

\* C10 amended: in each removal step the crowding distance is computed over
\* the current set and the single row removed is one with the lowest
\* crowding distance of that set.
C10_LowestIsRemoved ==
    [][ pc = "reduce" =>
            LET F == pf.val
                cd == Crowding(F)
            IN  /\ Cardinality(RemovedIdx(F, pf'.val)) = 1
                /\ \A j \in RemovedIdx(F, pf'.val) :
                       \A l \in 1..Len(F) : CDLeq(cd[j], cd[l]) ]_vars

\* a removal step is about to act on a set in which one row has strictly
\* the lowest distance and another row a finite, larger one
C10_Witness ==
    /\ pc = "reduce"
    /\ LET cd == Crowding(pf.val)
       IN  \E j, k \in 1..Len(pf.val) :
               /\ \A l \in 1..Len(pf.val) : l # j => CDLess(cd[j], cd[l])
               /\ ~cd[k].inf
               /\ k # j

-----------------------------------------------------------------------------
(* The choice between enumeration and search, over more design spaces *)

\* Problem instances with the continuous variable first, in the middle and
\* last, and fully discrete ones of sizes below, at and above the budgets.
DecisionProblems ==
    Problems \cup
    { [name |-> "real_first",
       vars |-> << [type |-> "Real", xl |-> 0, xu |-> 1],
                   [type |-> "Integer", xl |-> 0, xu |-> 1] >>],
      [name |-> "real_middle",
       vars |-> << [type |-> "Integer", xl |-> 0, xu |-> 1],
                   [type |-> "Real", xl |-> 0, xu |-> 1],
                   [type |-> "Integer", xl |-> 0, xu |-> 1] >>],
      [name |-> "real_only",
       vars |-> << [type |-> "Real", xl |-> 0, xu |-> 1],
                   [type |-> "Real", xl |-> 0, xu |-> 1] >>],
      [name |-> "discrete_6",
       vars |-> << [type |-> "Integer", xl |-> 0, xu |-> 2],
                   [type |-> "Integer", xl |-> 1, xu |-> 2] >>],
      [name |-> "discrete_24",
       vars |-> << [type |-> "Integer", xl |-> 0, xu |-> 3],
                   [type |-> "Integer", xl |-> 0, xu |-> 2],
                   [type |-> "Integer", xl |-> 0, xu |-> 1] >>],
      [name |-> "discrete_5",
       vars |-> << [type |-> "Integer", xl |-> 1, xu |-> 5],
                   [type |-> "Integer", xl |-> 2, xu |-> 2] >>] }

InitDecide ==
    /\ problem \in DecisionProblems
    /\ cache = NoneSeq
    /\ pc = "idle"
    /\ pop_size = 0
    /\ n_gen = 0
    /\ n_repeat = 0
    /\ n_pts_keep = NoneInt
    /\ futures = <<>>
    /\ i = 0
    /\ pf = NoneSeq
    /\ pf_unique = <<>>
    /\ n_left = 0
    /\ n_iter = 0
    /\ ret = NoRet
    /\ RaceIdle
    /\ EgorIdle

\* a cache-miss call up to its choice of path (lines 52-81)
NextDecide ==
    \E ps \in PopSizes, ng \in NGens, nrep \in 1..MaxRepeat, keep \in KeepArgs :
        \/ StartEnumeration(ps, ng, nrep, keep)
        \/ StartSearch(ps, ng, nrep, keep)

SpecDecide == InitDecide /\ [][NextDecide]_vars

RECURSIVE SizeOfAll(_, _)
\* the product of (upper - lower + 1) over all the dimensions d..end
SizeOfAll(p, d) ==
    IF d > Len(p.vars) THEN 1
    ELSE (p.vars[d].xu - p.vars[d].xl + 1) * SizeOfAll(p, d + 1)

HasContinuous(p) == \E d \in 1..Len(p.vars) : p.vars[d].type = "Real"

\* C11: on a cache miss the enumeration path is taken exactly when no design
\* variable is continuous and the product over all dimensions of
\* (upper - lower + 1) is strictly less than pop_size*n_gen*n_repeat;
\* otherwise the runs of the search path are submitted.
C11_EnumerationExactlyWhenSmallDiscrete ==
    LET small == /\ ~HasContinuous(problem)
                 /\ SizeOfAll(problem, 1) < pop_size * n_gen * n_repeat
    IN  /\ pc = "unique" => (small /\ futures = <<>> /\ pf.some)
        /\ pc = "wait" => (~small /\ Len(futures) = n_repeat /\ ~pf.some)
        /\ pc \in {"idle", "unique", "wait"}

\* the search path was taken because of a continuous variable that is not
\* the last one, although the discrete dimensions alone are below the budget
C11_Witness ==
    /\ pc = "wait"
    /\ problem.vars[Len(problem.vars)].type # "Real"
    /\ HasContinuous(problem)
    /\ SizeOfAll(problem, 1) < pop_size * n_gen * n_repeat

-----------------------------------------------------------------------------
(* The merge of the search path *)

\* the call is on the search path with the merge loop entered
Merging == pc = "merge" \/ (pc = "unique" /\ futures # <<>>)

\* the rows of the result fronts of the runs 1..k
RowsOfRuns(k) == UNION {Rows(futures[j].F) : j \in 1..k}

\* C12: on the search path, after run i is merged (i = 1 included) the
\* running front holds the non-dominated subset of the union of the result
\* fronts of the runs 1..i.
C12_RunningFrontIsParetoSetOfRuns ==
    (Merging /\ i >= 1) =>
        /\ pf.some
        /\ Rows(pf.val) = ParetoSet(RowsOfRuns(i))

\* the second run was merged and a row of the first run was dominated by it
C12_Witness ==
    /\ Merging
    /\ i = 2
    /\ \E r \in Rows(futures[1].F) : r \notin Rows(pf.val)
    /\ \E r \in Rows(futures[1].F) : r \in Rows(pf.val)

AnyRunning == \E j \in 1..Len(futures) : futures[j].state = "running"

\* C13: exactly n_repeat tasks are submitted, and while any of them is
\* running the call only waits: nothing is merged, returned or cached; the
\* merge loop and all later steps run with every task completed.
C13_MergeOnlyAfterAllRunsComplete ==
    /\ pc = "wait" => Len(futures) = n_repeat
    /\ futures # <<>> => Len(futures) = n_repeat
    /\ AnyRunning =>
           /\ pc = "wait"
           /\ ~pf.some
           /\ ~cache.some
           /\ ret.kind = "none"
    /\ pc \in {"merge", "unique", "reduce", "store"} => ~AnyRunning

\* the second run has completed while the first is still running
C13_Witness ==
    /\ pc = "wait"
    /\ Len(futures) = 2
    /\ futures[1].state = "running"
    /\ futures[2].state = "finished"

RECURSIVE MergeInOrder(_, _)
\* the merge loop of lines 84-92 over the first k fronts of a sequence
MergeInOrder(Fs, k) ==
    IF k = 0 THEN NoneSeq ELSE MergeRun(MergeInOrder(Fs, k - 1), Fs[k])

RunOrders(n) == {p \in [1..n -> 1..n] : \A a, b \in 1..n : a # b => p[a] # p[b]}

AllFinished == futures # <<>> /\ \A j \in 1..Len(futures) : futures[j].state = "finished"

\* C14: merging the run results in any order gives the same set of rows as
\* merging them in submission order, which is the front the merge loop leaves.
C14_MergeIndependentOfOrder ==
    AllFinished =>
        LET n == Len(futures)
            inOrder == MergeInOrder([j \in 1..n |-> futures[j].F], n)
        IN  /\ \A p \in RunOrders(n) :
                   Rows(MergeInOrder([j \in 1..n |-> futures[p[j]].F], n).val)
                       = Rows(inOrder.val)
            /\ (pc = "unique") => Rows(pf.val) = Rows(inOrder.val)

\* two runs with different fronts, one row of which dominates a row of the
\* other, have been merged
C14_Witness ==
    /\ pc = "unique"
    /\ AllFinished
    /\ Len(futures) = 2
    /\ futures[1].F # futures[2].F
    /\ \E a \in Rows(futures[1].F), b \in Rows(futures[2].F) : Dominates(b, a)

\* ---------------------------------------------------------------------------
\* Two processes calling _calc_pareto_front with the same cache key.  The
\* steps of a call that touch the file system are taken one at a time, since
\* the code holds no lock around them.

FrontRet(F) == [kind |-> "front", F |-> F]

LoadErrorRet == [kind |-> "error", F |-> <<>>]

\* both processes are about to make the call, no cache file exists, and the
\* single-caller machine is idle
RaceInit ==
    /\ PfIdle
    /\ EgorIdle
    /\ r_file = [state |-> "absent", val |-> <<>>]
    /\ r_pc = [p \in Procs |-> "check"]
    /\ r_pf = [p \in Procs |-> <<>>]
    /\ r_ret = [p \in Procs |-> [kind |-> "none", F |-> <<>>]]
    /\ r_writer = 0

\* line 55: os.path.exists(cache_path); true as soon as the file is created,
\* whatever it holds
ExistsCheck(p) ==
    /\ r_pc[p] = "check"
    /\ r_pc' = [r_pc EXCEPT ![p] = IF r_file.state # "absent" THEN "load" ELSE "compute"]
    /\ UNCHANGED <<vars, egor_vars, r_file, r_pf, r_ret, r_writer>>

\* lines 56-57: pickle.load of a file that holds a whole pickle
LoadCache(p) ==
    /\ r_pc[p] = "load"
    /\ r_file.state = "complete"
    /\ r_ret' = [r_ret EXCEPT ![p] = FrontRet(r_file.val)]
    /\ r_pc' = [r_pc EXCEPT ![p] = "done"]
    /\ UNCHANGED <<vars, egor_vars, r_file, r_pf, r_writer>>

\* lines 56-57: pickle.load of a file that was opened for writing and not yet
\* written raises (EOFError), and the call ends with that exception
LoadFails(p) ==
    /\ r_pc[p] = "load"
    /\ r_file.state = "partial"
    /\ r_ret' = [r_ret EXCEPT ![p] = LoadErrorRet]
    /\ r_pc' = [r_pc EXCEPT ![p] = "done"]
    /\ UNCHANGED <<vars, egor_vars, r_file, r_pf, r_writer>>

\* lines 59-100: the process computes its front; two stochastic computations
\* need not give the same rows
Compute(p) ==
    /\ r_pc[p] = "compute"
    /\ \E F \in RunFronts(problem) : r_pf' = [r_pf EXCEPT ![p] = F]
    /\ r_pc' = [r_pc EXCEPT ![p] = "open"]
    /\ UNCHANGED <<vars, egor_vars, r_file, r_ret, r_writer>>

\* lines 103-104: open(cache_path, 'wb') creates the file or truncates it
OpenForWrite(p) ==
    /\ r_pc[p] = "open"
    /\ r_file' = [state |-> "partial", val |-> <<>>]
    /\ r_pc' = [r_pc EXCEPT ![p] = "dump"]
    /\ UNCHANGED <<vars, egor_vars, r_pf, r_ret, r_writer>>

\* lines 105-106: pickle.dump and the close of the with block write the whole
\* pickle from the start of the file; the call returns pf
DumpAndReturn(p) ==
    /\ r_pc[p] = "dump"
    /\ r_file' = [state |-> "complete", val |-> r_pf[p]]
    /\ r_writer' = p
    /\ r_ret' = [r_ret EXCEPT ![p] = FrontRet(r_pf[p])]
    /\ r_pc' = [r_pc EXCEPT ![p] = "done"]
    /\ UNCHANGED <<vars, egor_vars, r_pf>>

RaceNext ==
    \E p \in Procs :
        \/ ExistsCheck(p)
        \/ LoadCache(p)
        \/ LoadFails(p)
        \/ Compute(p)
        \/ OpenForWrite(p)
        \/ DumpAndReturn(p)

SpecRace == RaceInit /\ [][RaceNext]_<<vars, race_vars, egor_vars>>

BothDone == \A p \in Procs : r_pc[p] = "done"

\* C15: when two processes make the call for the same cache key at the same
\* time, no call reads a partially written cache file, every call that has
\* ended has returned a complete front, and once both have ended the cache
\* file holds the complete front of the process that wrote last.
C15_RacingCallsReturnCompleteFronts ==
    /\ \A p \in Procs : r_pc[p] = "load" => r_file.state = "complete"
    /\ \A p \in Procs : r_pc[p] = "done" => r_ret[p].kind = "front"
    /\ BothDone =>
           /\ r_writer \in Procs
           /\ r_file = [state |-> "complete", val |-> r_pf[r_writer]]

\* ---------------------------------------------------------------------------
\* EGORArchOptInterface: minimize and the methods it calls

MaxPoint == 3

MaxLoaded == 2

MaxCalls == 2

\* design points of the problem
EPoints == 1..MaxPoint

NInits == {1, 2}

NInfills == {1, 2}

\* problem.get_failed_points: the evaluation of this design point fails
IsFailed(ind) == ind.X = MaxPoint

\* problem.evaluate wrapped into a Population (_evaluate, lines 287-296):
\* one individual per row of x
Evaluation(xs) == [k \in 1..Len(xs) |-> [X |-> xs[k], F |-> xs[k] * xs[k]]]

SeqsUpTo(S, n) == UNION {[1..k -> S] : k \in 0..n}

\* what load_previous_results can return: None, or a stored population
PreviousResults ==
    {NoneSeq} \cup {Some(Evaluation(xs)) : xs \in SeqsUpTo(EPoints, MaxLoaded)}

IsOk(ind) == ~IsFailed(ind)

\* _get_xy (lines 298-319): y from the outputs, then x and y masked by
\* ~is_failed and x_failed by is_failed
GetXY(population) ==
    LET X == [k \in 1..Len(population) |-> population[k].X]
        y == [k \in 1..Len(population) |-> population[k].F]
        ok == SelectSeq(population, IsOk)
        failed == SelectSeq(population, IsFailed)
    IN  [x |-> [k \in 1..Len(ok) |-> ok[k].X],
         x_failed |-> [k \in 1..Len(failed) |-> failed[k].X],
         y |-> [k \in 1..Len(ok) |-> ok[k].F]]

\* property n (lines 84-87)
N == IF e_x.some THEN Len(e_x.val) ELSE 0

\* property n_failed (lines 97-100)
NFailed == IF e_x_failed.some THEN Len(e_x_failed.val) ELSE 0

\* property n_tried (lines 102-105)
NTried == N + NFailed

\* egor.get_result(self._x, self.y) (line 227)
GetResult == [bound |-> TRUE, val |-> <<e_x.val, e_y.val>>]

\* __init__ (lines 57-75) of an interface whose results folder holds the
\* results of an earlier run, or nothing
EgorInit ==
    /\ PfIdle
    /\ RaceIdle
    /\ results_folder \in PreviousResults
    /\ n_init \in NInits
    /\ e_x = NoneSeq
    /\ e_x_failed = NoneSeq
    /\ e_y = NoneSeq
    /\ e_pc = "idle"
    /\ n_infill = 0
    /\ n_infills = 0
    /\ opt_res = Unbound
    /\ saved = FALSE
    /\ e_ret = [kind |-> "none", res |-> Unbound]
    /\ n_calls = 0
    /\ tried = {}

\* minimize is called (line 160); its locals are fresh
CallMinimize(n) ==
    /\ e_pc \in {"idle", "done"}
    /\ n_calls < MaxCalls
    /\ n_calls' = n_calls + 1
    /\ n_infill' = n
    /\ opt_res' = Unbound
    /\ saved' = FALSE
    /\ e_ret' = [kind |-> "none", res |-> Unbound]
    /\ e_pc' = "init"
    /\ UNCHANGED <<vars, race_vars, results_folder, n_init, e_x, e_x_failed, e_y,
                   n_infills, tried>>

\* lines 164-165 with initialize_from_previous (lines 143-158): previous
\* results are loaded when self._x is None and the folder holds a population
InitializeFromPrevious ==
    /\ e_pc = "init"
    /\ ~e_x.some
    /\ results_folder.some
    /\ LET xy == GetXY(results_folder.val)
       IN  /\ e_x' = Some(xy.x)
           /\ e_x_failed' = Some(xy.x_failed)
           /\ e_y' = Some(xy.y)
           /\ tried' = tried \cup Rows(xy.x) \cup Rows(xy.x_failed)
    /\ e_pc' = "doe"
    /\ UNCHANGED <<vars, race_vars, results_folder, n_init, n_infill, n_infills,
                   opt_res, saved, e_ret, n_calls>>

\* lines 164-165: self._x is set already, or no previous results are found
NothingLoaded ==
    /\ e_pc = "init"
    /\ e_x.some \/ ~results_folder.some
    /\ e_pc' = "doe"
    /\ UNCHANGED <<vars, race_vars, results_folder, n_init, e_x, e_x_failed, e_y,
                   n_infill, n_infills, opt_res, saved, e_ret, n_calls, tried>>

\* lines 168-173 with _run_doe (lines 189-203): n_init - n_tried points are
\* sampled and evaluated, and self._x, self._x_failed, self._y are assigned
\* the evaluated points (line 195); _run_doe saves the results
RunDoe ==
    /\ e_pc = "doe"
    /\ NTried < n_init
    /\ \E x_doe \in [1..(n_init - NTried) -> EPoints] :
           LET xy == GetXY(Evaluation(x_doe))
           IN  /\ e_x' = Some(xy.x)
               /\ e_x_failed' = Some(xy.x_failed)
               /\ e_y' = Some(xy.y)
               /\ tried' = tried \cup Rows(x_doe)
    /\ saved' = TRUE
    /\ e_pc' = "opt"
    /\ UNCHANGED <<vars, race_vars, results_folder, n_init, n_infill, n_infills,
                   opt_res, e_ret, n_calls>>

\* line 169: enough points are available, no DOE
SkipDoe ==
    /\ e_pc = "doe"
    /\ ~(NTried < n_init)
    /\ e_pc' = "opt"
    /\ UNCHANGED <<vars, race_vars, results_folder, n_init, e_x, e_x_failed, e_y,
                   n_infill, n_infills, opt_res, saved, e_ret, n_calls, tried>>

\* lines 176-182: the number of infills, and entry of _run_infills
StartInfills ==
    /\ e_pc = "opt"
    /\ NTried < n_init + n_infill
    /\ n_infills' = n_infill - (NTried - n_init)
    /\ e_pc' = "infill"
    /\ UNCHANGED <<vars, race_vars, results_folder, n_init, e_x, e_x_failed, e_y,
                   n_infill, opt_res, saved, e_ret, n_calls, tried>>

\* line 177: the condition is false, and opt_res is not assigned
SkipInfills ==
    /\ e_pc = "opt"
    /\ ~(NTried < n_init + n_infill)
    /\ e_pc' = "save"
    /\ UNCHANGED <<vars, race_vars, results_folder, n_init, e_x, e_x_failed, e_y,
                   n_infill, n_infills, opt_res, saved, e_ret, n_calls, tried>>

\* one iteration of the loop of _run_infills (lines 209-225): a suggested
\* point is evaluated and stacked under x, y and x_failed, and the results
\* are saved
InfillStep ==
    /\ e_pc = "infill"
    /\ n_infills > 0
    /\ \E x \in EPoints :
           LET xy == GetXY(Evaluation(<<x>>))
           IN  /\ e_x' = Some(e_x.val \o xy.x)
               /\ e_y' = Some(e_y.val \o xy.y)
               /\ e_x_failed' = Some(e_x_failed.val \o xy.x_failed)
               /\ tried' = tried \cup {x}
    /\ n_infills' = n_infills - 1
    /\ saved' = TRUE
    /\ UNCHANGED <<vars, race_vars, results_folder, n_init, e_pc, n_infill,
                   opt_res, e_ret, n_calls>>

\* line 227 and line 182: the loop is over, opt_res is assigned
InfillsDone ==
    /\ e_pc = "infill"
    /\ n_infills = 0
    /\ opt_res' = GetResult
    /\ e_pc' = "save"
    /\ UNCHANGED <<vars, race_vars, results_folder, n_init, e_x, e_x_failed, e_y,
                   n_infill, n_infills, saved, e_ret, n_calls, tried>>

\* lines 185-187: the results are saved and opt_res is returned
SaveAndReturnResult ==
    /\ e_pc = "save"
    /\ opt_res.bound
    /\ saved' = TRUE
    /\ e_ret' = [kind |-> "result", res |-> opt_res]
    /\ e_pc' = "done"
    /\ UNCHANGED <<vars, race_vars, results_folder, n_init, e_x, e_x_failed, e_y,
                   n_infill, n_infills, opt_res, n_calls, tried>>

\* lines 185-187: the results are saved, and the return of the unassigned
\* local opt_res raises UnboundLocalError
ReturnRaises ==
    /\ e_pc = "save"
    /\ ~opt_res.bound
    /\ saved' = TRUE
    /\ e_ret' = [kind |-> "error", res |-> Unbound]
    /\ e_pc' = "done"
    /\ UNCHANGED <<vars, race_vars, results_folder, n_init, e_x, e_x_failed, e_y,
                   n_infill, n_infills, opt_res, n_calls, tried>>

EgorNext ==
    \/ \E n \in NInfills : CallMinimize(n)
    \/ InitializeFromPrevious
    \/ NothingLoaded
    \/ RunDoe
    \/ SkipDoe
    \/ StartInfills
    \/ SkipInfills
    \/ InfillStep
    \/ InfillsDone
    \/ SaveAndReturnResult
    \/ ReturnRaises

SpecEgor == EgorInit /\ [][EgorNext]_<<vars, race_vars, egor_vars>>

\* C16: every design point loaded or evaluated so far is a row of x or of
\* x_failed at every step of minimize, and x and y have the same number of
\* rows.
C16_TriedPointsOnlyGrow ==
    /\ tried \subseteq Rows(e_x.val) \cup Rows(e_x_failed.val)
    /\ Len(e_x.val) = Len(e_y.val)

\* C17: a minimize call that has ended, whatever state it started in, has
\* saved the results and returned an optimization result.
C17_MinimizeSavesAndReturns ==
    e_pc = "done" => saved /\ e_ret.kind = "result"
====
